---- MODULE Spec2Model ----
(***************************************************************************)
(* Model of starknet/src/stream/aggregate.rs: the BlockDataAggregator      *)
(* trait (aggregate_batch) and DatabaseBlockDataAggregator                 *)
(* (aggregate_for_block, next_block and the per-artifact readers) over a   *)
(* StorageReader.  Every storage read is one step, so that a failure of    *)
(* the storage layer can hit any read of any iteration.                    *)
(***************************************************************************)
EXTENDS Integers, Sequences, FiniteSets, TLC

\* ---------------------------------------------------------------- bounds
MaxHeight == 2      \* heights 0..MaxHeight can hold a canonical block
MaxSize   == 4      \* `size` argument of aggregate_batch ranges over 0..MaxSize
MaxCalls  == 3      \* number of chained aggregate_batch calls

\* Option<T>: None is the empty sequence, Some(x) the one-element sequence
None == <<>>
Some(x) == <<x>>
unwrap(o) == o[1]

Heights == 0 .. MaxHeight
Hashes  == {"a", "b"}

\* GlobalBlockId: number + hash
GlobalBlockId == [number : Heights, hash : Hashes]

Id(n, h) == [number |-> n, hash |-> h]

\* v1alpha2::BlockStatus
BlockStatus == {"Unspecified", "Pending", "AcceptedOnL2", "AcceptedOnL1", "Rejected"}

\* `status as i32`: the enum's discriminant
as_i32(s) ==
    CASE s = "Unspecified"  -> 0
      [] s = "Pending"      -> 1
      [] s = "AcceptedOnL2" -> 2
      [] s = "AcceptedOnL1" -> 3
      [] s = "Rejected"     -> 4

\* Block::status(): the enum of the stored i32, the default for an unknown value
block_status(block) ==
    CASE block.status = 1 -> "Pending"
      [] block.status = 2 -> "AcceptedOnL2"
      [] block.status = 3 -> "AcceptedOnL1"
      [] block.status = 4 -> "Rejected"
      [] OTHER            -> "Unspecified"

\* ---------------------------------------------------------------- artifacts
Transactions == {"t1", "t2", "t3"}
Events       == {"e0", "e1", "e2"}

\* What a stored block holds, by block id (the two hashes are two branches).
BodyOf(id) ==
    IF id.hash = "b" THEN <<"t3", "t1">>
    ELSE CASE id.number % 3 = 0 -> <<"t1", "t2", "t3">>
           [] id.number % 3 = 1 -> <<"t2", "t1", "t2">>
           [] OTHER             -> <<>>

\* receipts, each one carrying its events
ReceiptsOf(id) ==
    IF id.hash = "b" THEN << [events |-> <<"e2">>] >>
    ELSE CASE id.number % 3 = 0 -> << [events |-> <<"e0", "e1">>], [events |-> <<"e2">>] >>
           [] id.number % 3 = 1 -> << [events |-> <<>>], [events |-> <<"e1", "e0", "e1">>] >>
           [] OTHER             -> << [events |-> <<"e2", "e2">>] >>

HeaderOf(id) == [block_number |-> id.number, block_hash |-> id.hash]

\* TransactionFilter / EventFilter: opaque predicates, given by what they match
txf(s) == [matches |-> s]

\* v1alpha2::Filter values the aggregator is constructed with
Filters ==
    { [header |-> FALSE, transactions |-> <<>>, events |-> <<>>],
      [header |-> TRUE,  transactions |-> <<txf({"t1"})>>, events |-> <<>>],
      [header |-> FALSE, transactions |-> <<>>, events |-> <<txf({"e1"})>>],
      [header |-> TRUE,  transactions |-> <<txf({"t1", "t2"}), txf({"t2", "t3"})>>,
                         events |-> <<txf({"e0", "e1", "e2"}), txf({"e1", "e2"})>>],
      [header |-> FALSE, transactions |-> <<txf({"t2"}), txf({"t1"})>>,
                         events |-> <<txf({"e2"}), txf({"e0"})>>],
      [header |-> TRUE,  transactions |-> <<txf({})>>, events |-> <<txf({})>>] }

\* statuses the ingestion path gives to the blocks of the canonical chain
ChainStatuses == {"Pending", "AcceptedOnL2"}

\* `status` arguments of aggregate_batch
RequiredStatuses == {"Unspecified", "Pending", "AcceptedOnL2"}

\* ---------------------------------------------------------------- state
VARIABLES
    storage,          \* the StorageReader: status per stored id, canonical hash per height
    faults,           \* whether a storage call can fail
    mutations,        \* number of changes the ingestion path has made to storage
    filter,           \* DatabaseBlockDataAggregator.filter
    starting_block,   \* aggregate_batch arguments
    size,
    required_status,
    blocks,           \* aggregate_batch locals
    current_block,
    iter,             \* the loop's `_ in 0..size`
    pc,               \* position inside aggregate_batch / aggregate_for_block
    blk,              \* aggregate_for_block locals: status, header, transactions, events
    result,           \* what the call returned
    log,              \* storage calls made by the current call, in order
    pred_calls,       \* predicate invocations of the current call, per category
    batch_ids,        \* the id each element of `blocks` was aggregated for
    stop,             \* which return statement ended the call
    delivered,        \* per id, in how many returned batches the caller received it
    calls,            \* number of aggregate_batch calls started (counted up to MaxCalls)
    origin            \* the starting block of the first call

vars == << storage, faults, mutations, filter, starting_block, size, required_status, blocks,
           current_block, iter, pc, blk, result, log, pred_calls, batch_ids,
           stop, delivered, calls, origin >>

\* ---------------------------------------------------------------- StorageReader
\* storage.status[id] is None when storage has no record for id
HasRecord(id) == storage.status[id] # None

read_status(id) == storage.status[id]

read_header(id) == IF HasRecord(id) THEN Some(HeaderOf(id)) ELSE None

read_body(id) == IF HasRecord(id) THEN BodyOf(id) ELSE <<>>

read_receipts(id) == IF HasRecord(id) THEN ReceiptsOf(id) ELSE <<>>

canonical_block_id(h) ==
    IF h \in DOMAIN storage.canonical /\ storage.canonical[h] # None
    THEN Some(Id(h, unwrap(storage.canonical[h])))
    ELSE None

\* ---------------------------------------------------------------- DatabaseBlockDataAggregator
\* TransactionFilter::matches / EventFilter::matches
matches(f, x) == x \in f.matches

\* mutant: an unknown block's status defaults to Pending
status_or_pending(r) == IF r = None THEN "Pending" ELSE unwrap(r)

\* status(): read_status(..)?.unwrap_or(Unspecified)
status(r) == IF r = None THEN "Unspecified" ELSE unwrap(r)

\* mutant: the header is read whatever the filter says
header_included_always == TRUE

\* header(): is the header read at all
header_included == filter.header

\* mutant: no early return, the body is always read
transactions_excluded_never == FALSE

\* transactions(): the early return on an empty filter sequence
transactions_excluded == Len(filter.transactions) = 0

\* events(): the early return on an empty filter sequence
events_excluded == Len(filter.events) = 0

\* mutant: every filter of the sequence has to match
filter_transaction_all(tx) ==
    \A i \in 1 .. Len(filter.transactions) : matches(filter.transactions[i], tx)

\* filter_transaction(): true on the first filter that matches
filter_transaction(tx) ==
    \E i \in 1 .. Len(filter.transactions) : matches(filter.transactions[i], tx)

\* transactions(): read_body(..).into_iter().filter(filter_transaction).collect()
transactions(body) == SelectSeq(body, filter_transaction)

\* mutant: no break, the event is pushed once per filter that matches
RECURSIVE event_pushes_no_break(_, _)
event_pushes_no_break(event, k) ==
    IF k > Len(filter.events) THEN <<>>
    ELSE (IF matches(filter.events[k], event) THEN <<event>> ELSE <<>>)
         \o event_pushes_no_break(event, k + 1)

\* events(): `for filter in &self.filter.events`, from the k-th filter on:
\* push the event on the first filter that matches, then break
RECURSIVE event_pushes(_, _)
event_pushes(event, k) ==
    IF k > Len(filter.events) THEN <<>>
    ELSE IF matches(filter.events[k], event) THEN <<event>>
    ELSE event_pushes(event, k + 1)

\* events(): `for event in receipt.events`
RECURSIVE receipt_events(_)
receipt_events(evs) ==
    IF evs = <<>> THEN <<>>
    ELSE event_pushes(Head(evs), 1) \o receipt_events(Tail(evs))

\* events(): `for receipt in receipts`
RECURSIVE events(_)
events(rs) ==
    IF rs = <<>> THEN <<>>
    ELSE receipt_events(Head(rs).events) \o events(Tail(rs))

\* mutant: the receipts read from storage
receipts_from_storage == read_receipts(current_block)

\* receipts(): always the empty vector
receipts == <<>>

\* state_update(): always None
state_update == None

\* number of `matches` invocations for one artifact: up to and including the first match
invocations(fs, x) ==
    IF \E i \in 1 .. Len(fs) : matches(fs[i], x)
    THEN CHOOSE i \in 1 .. Len(fs) :
            matches(fs[i], x) /\ \A j \in 1 .. i - 1 : ~matches(fs[j], x)
    ELSE Len(fs)

RECURSIVE invocations_all(_, _)
invocations_all(fs, xs) ==
    IF xs = <<>> THEN 0 ELSE invocations(fs, Head(xs)) + invocations_all(fs, Tail(xs))

RECURSIVE flatten(_)
flatten(rs) == IF rs = <<>> THEN <<>> ELSE Head(rs).events \o flatten(Tail(rs))

\* aggregate_for_block(): the Block record
Block(b) ==
    [ status       |-> as_i32(b.status),
      header       |-> b.header,
      state_update |-> state_update,
      transactions |-> b.transactions,
      receipts     |-> receipts,
      events       |-> b.events ]

\* aggregate_for_block(): Ok(Some(block)), on every path
aggregate_for_block_result(b) == Some(Block(b))

\* mutant: the successor only of a block that is canonical at its own height
next_block_checks_hash(block_id) ==
    IF canonical_block_id(block_id.number) = Some(block_id)
    THEN canonical_block_id(block_id.number + 1)
    ELSE None

\* mutant: the successor looked up two heights up
next_block_skip(block_id) == canonical_block_id(block_id.number + 2)

\* mutant: the successor looked up at the block's own height
next_block_same_height(block_id) == canonical_block_id(block_id.number)

\* next_block(): canonical_block_id(block_id.number() + 1)
next_block(block_id) == canonical_block_id(block_id.number + 1)

\* mutant: the failure is swallowed and the call goes on
storage_error_swallowed(ok) == FALSE

\* `?`: a failed storage call is returned to the caller
storage_error(ok) == ~ok

\* mutant: one iteration too many, `0..=size`
loop_continues_inclusive(i) == i <= size

\* aggregate_batch: `for _ in 0..size`
loop_continues(i) == i < size

\* mutant: the status is never compared
status_differs_never(block) == FALSE

\* aggregate_batch: `block.status() != status`
status_differs(block) == block_status(block) # required_status

\* ---------------------------------------------------------------- results
Ok(bs, cursor) == [kind |-> "ok", blocks |-> bs, cursor |-> cursor]
Err(op)        == [kind |-> "err", error |-> op]
NoResult       == [kind |-> "none"]

NoLocals == [status |-> "Unspecified", header |-> None, transactions |-> <<>>, events |-> <<>>]

\* a storage call of the log: the operation, the block it is made for, whether it
\* succeeded, and the state of storage (number of changes so far) it read
Call(op, id, ok) == [op |-> op, id |-> id, ok |-> ok, ver |-> mutations]

\* what a storage call can do: succeed, or fail when the storage layer can fail
Outcomes == IF faults THEN BOOLEAN ELSE {TRUE}

Range(seq) == { seq[i] : i \in 1 .. Len(seq) }

\* the caller's count of the batches in which it received each block
\* (counted up to MaxCalls)
Received(ids) ==
    [id \in GlobalBlockId |->
        IF id \in Range(ids) /\ delivered[id] < MaxCalls THEN delivered[id] + 1 ELSE delivered[id]]

\* `return Ok((blocks, current_block))`
ReturnOk(bs, ids, cursor, why) ==
    /\ result' = Ok(bs, cursor)
    /\ stop' = why
    /\ pc' = "done"
    /\ delivered' = Received(ids)

\* `?` on a failed storage call: the error is the call's result
ReturnErr(op) ==
    /\ result' = Err(op)
    /\ stop' = "error"
    /\ pc' = "done"
    /\ delivered' = delivered

\* aggregate_batch entry: the locals, then the loop's first test
Enter(start, n, st) ==
    /\ starting_block' = start
    /\ size' = n
    /\ required_status' = st
    /\ blocks' = <<>>
    /\ batch_ids' = <<>>
    /\ current_block' = start
    /\ iter' = 0
    /\ blk' = NoLocals
    /\ log' = <<>>
    /\ pred_calls' = [transactions |-> 0, events |-> 0]
    /\ calls' = IF calls < MaxCalls THEN calls + 1 ELSE calls
    /\ origin' = IF calls = 0 THEN start ELSE origin
    /\ IF 0 < n
       THEN /\ pc' = "status"
            /\ result' = NoResult
            /\ stop' = "none"
            /\ delivered' = delivered
       ELSE ReturnOk(<<>>, <<>>, start, "size")
    /\ UNCHANGED << storage, faults, mutations, filter >>

\* ---------------------------------------------------------------- Init
\* a canonical chain of len blocks on branch "a", with the statuses sts; with orphan,
\* a stored block of branch "b" at height 0 that is not canonical
Storage(len, sts, orphan) ==
    [ status |->
        [ id \in GlobalBlockId |->
            IF id.hash = "a" /\ id.number < len THEN Some(sts[id.number])
            ELSE IF id.hash = "b" /\ id.number = 0 /\ orphan THEN Some("AcceptedOnL2")
            ELSE None ],
      canonical |-> [ h \in Heights |-> IF h < len THEN Some("a") ELSE None ] ]

\* the aggregator's locals before its first call
Idle ==
    /\ starting_block = Id(0, "a")
    /\ size = 0
    /\ required_status = "Unspecified"
    /\ blocks = <<>>
    /\ batch_ids = <<>>
    /\ current_block = Id(0, "a")
    /\ iter = 0
    /\ pc = "idle"
    /\ blk = NoLocals
    /\ result = NoResult
    /\ log = <<>>
    /\ pred_calls = [transactions |-> 0, events |-> 0]
    /\ stop = "none"
    /\ delivered = [id \in GlobalBlockId |-> 0]
    /\ calls = 0
    /\ origin = Id(0, "a")
    /\ mutations = 0

\* DatabaseBlockDataAggregator::new(storage, filter)
Constructed ==
    /\ \E len \in 0 .. MaxHeight + 1 :
         \E sts \in [0 .. len - 1 -> ChainStatuses] :
           \E orphan \in BOOLEAN :
             storage = Storage(len, sts, orphan)
    /\ filter \in Filters
    /\ Idle

\* a storage layer whose calls can fail
Init == Constructed /\ faults = TRUE

\* a storage layer whose calls all succeed
InitReliable == Constructed /\ faults = FALSE

\* filters that ask for the header, transactions and events
FiltersIngesting ==
    { f \in Filters : f.header /\ Len(f.transactions) > 0 /\ Len(f.events) > 0
                                /\ f.transactions[1].matches # {} }

\* a storage layer that is being written: one branch so far, its calls succeeding
InitIngesting ==
    /\ \E len \in 0 .. MaxHeight + 1 :
         \E sts \in [0 .. len - 1 -> ChainStatuses] :
            storage = Storage(len, sts, FALSE)
    /\ filter \in FiltersIngesting
    /\ Idle
    /\ faults = FALSE

\* ---------------------------------------------------------------- actions
\* the caller's first aggregate_batch(starting_block, size, status)
aggregate_batch ==
    /\ pc = "idle"
    /\ \E start \in GlobalBlockId, n \in 0 .. MaxSize, st \in RequiredStatuses :
         Enter(start, n, st)

\* the caller's next call, from the cursor the previous call returned
Resume ==
    /\ pc = "done"
    /\ result.kind = "ok"
    /\ calls < MaxCalls
    /\ \E n \in 1 .. MaxSize : Enter(result.cursor, n, required_status)

\* aggregate_for_block: `let status = self.status(block_id)?`
ReadStatus ==
    /\ pc = "status"
    /\ \E ok \in Outcomes :
         /\ log' = Append(log, Call("read_status", current_block, ok))
         /\ IF storage_error(ok)
            THEN ReturnErr("read_status") /\ blk' = blk
            ELSE /\ blk' = [blk EXCEPT !.status = status(read_status(current_block))]
                 /\ pc' = "header"
                 /\ UNCHANGED << result, stop, delivered >>
    /\ UNCHANGED << storage, faults, mutations, filter, starting_block, size, required_status, blocks,
                    current_block, iter, pred_calls, batch_ids, calls, origin >>

\* aggregate_for_block: `let header = self.header(block_id)?`
ReadHeader ==
    /\ pc = "header"
    /\ IF header_included
       THEN \E ok \in Outcomes :
              /\ log' = Append(log, Call("read_header", current_block, ok))
              /\ IF storage_error(ok)
                 THEN ReturnErr("read_header") /\ blk' = blk
                 ELSE /\ blk' = [blk EXCEPT !.header = read_header(current_block)]
                      /\ pc' = "transactions"
                      /\ UNCHANGED << result, stop, delivered >>
       ELSE /\ blk' = [blk EXCEPT !.header = None]
            /\ pc' = "transactions"
            /\ UNCHANGED << log, result, stop, delivered >>
    /\ UNCHANGED << storage, faults, mutations, filter, starting_block, size, required_status, blocks,
                    current_block, iter, pred_calls, batch_ids, calls, origin >>

\* aggregate_for_block: `let transactions = self.transactions(block_id)?`
ReadBody ==
    /\ pc = "transactions"
    /\ IF transactions_excluded
       THEN /\ blk' = [blk EXCEPT !.transactions = <<>>]
            /\ pc' = "events"
            /\ UNCHANGED << log, result, stop, delivered, pred_calls >>
       ELSE \E ok \in Outcomes :
              /\ log' = Append(log, Call("read_body", current_block, ok))
              /\ IF storage_error(ok)
                 THEN ReturnErr("read_body") /\ UNCHANGED << blk, pred_calls >>
                 ELSE /\ blk' = [blk EXCEPT !.transactions = transactions(read_body(current_block))]
                      /\ pred_calls' = [pred_calls EXCEPT !.transactions =
                             @ + invocations_all(filter.transactions, read_body(current_block))]
                      /\ pc' = "events"
                      /\ UNCHANGED << result, stop, delivered >>
    /\ UNCHANGED << storage, faults, mutations, filter, starting_block, size, required_status, blocks,
                    current_block, iter, batch_ids, calls, origin >>

\* aggregate_for_block: `let receipts = self.receipts(block_id)?` (no storage call) and
\* `let events = self.events(block_id)?`
ReadReceipts ==
    /\ pc = "events"
    /\ IF events_excluded
       THEN /\ blk' = [blk EXCEPT !.events = <<>>]
            /\ pc' = "match"
            /\ UNCHANGED << log, result, stop, delivered, pred_calls >>
       ELSE \E ok \in Outcomes :
              /\ log' = Append(log, Call("read_receipts", current_block, ok))
              /\ IF storage_error(ok)
                 THEN ReturnErr("read_receipts") /\ UNCHANGED << blk, pred_calls >>
                 ELSE /\ blk' = [blk EXCEPT !.events = events(read_receipts(current_block))]
                      /\ pred_calls' = [pred_calls EXCEPT !.events =
                             @ + invocations_all(filter.events, flatten(read_receipts(current_block)))]
                      /\ pc' = "match"
                      /\ UNCHANGED << result, stop, delivered >>
    /\ UNCHANGED << storage, faults, mutations, filter, starting_block, size, required_status, blocks,
                    current_block, iter, batch_ids, calls, origin >>

\* aggregate_for_block returns; aggregate_batch matches on what it returned
Match ==
    /\ pc = "match"
    /\ LET res == aggregate_for_block_result(blk) IN
         IF res = None
         THEN /\ ReturnOk(blocks, batch_ids, current_block, "absent")
              /\ UNCHANGED << blocks, batch_ids >>
         ELSE IF status_differs(unwrap(res))
         THEN /\ ReturnOk(blocks, batch_ids, current_block, "status")
              /\ UNCHANGED << blocks, batch_ids >>
         ELSE /\ blocks' = Append(blocks, unwrap(res))
              /\ batch_ids' = Append(batch_ids, current_block)
              /\ pc' = "next_block"
              /\ UNCHANGED << result, stop, delivered >>
    /\ blk' = NoLocals
    /\ UNCHANGED << storage, faults, mutations, filter, starting_block, size, required_status,
                    current_block, iter, log, pred_calls, calls, origin >>

\* aggregate_batch: `match self.next_block(&current_block)?`, then the loop's next test
NextBlock ==
    /\ pc = "next_block"
    /\ \E ok \in Outcomes :
         /\ log' = Append(log, Call("canonical_block_id", current_block, ok))
         /\ IF storage_error(ok)
            THEN ReturnErr("canonical_block_id") /\ UNCHANGED << current_block, iter >>
            ELSE LET res == next_block(current_block) IN
                 IF res = None
                 THEN /\ ReturnOk(blocks, batch_ids, current_block, "tip")
                      /\ UNCHANGED << current_block, iter >>
                 ELSE /\ current_block' = unwrap(res)
                      /\ iter' = iter + 1
                      /\ IF loop_continues(iter + 1)
                         THEN /\ pc' = "status"
                              /\ UNCHANGED << result, stop, delivered >>
                         ELSE ReturnOk(blocks, batch_ids, unwrap(res), "size")
    /\ UNCHANGED << storage, faults, mutations, filter, starting_block, size, required_status, blocks,
                    blk, pred_calls, batch_ids, calls, origin >>

Next ==
    \/ aggregate_batch
    \/ Resume
    \/ ReadStatus
    \/ ReadHeader
    \/ ReadBody
    \/ ReadReceipts
    \/ Match
    \/ NextBlock

Spec == Init /\ [][Next]_vars

\* ---------------------------------------------------------------- a caller that never stops
\* the caller's further calls, from the cursor the previous call returned
ResumeAgain ==
    /\ pc = "done"
    /\ result.kind = "ok"
    /\ calls = MaxCalls
    /\ \E n \in 1 .. MaxSize : Enter(result.cursor, n, required_status)

NextRepeated ==
    \/ Next
    \/ ResumeAgain

\* calls repeated for ever over an unchanging one-branch storage layer whose calls
\* succeed: the caller goes on calling and every call runs to its return
SpecRepeated == InitIngesting /\ [][NextRepeated]_vars /\ WF_vars(NextRepeated)

\* ---------------------------------------------------------------- ingestion path
\* The storage layer is written by the ingestion path while the aggregator reads it;
\* a behaviour has at most one such change, at any point of any call or between calls.
OtherHash(h) == IF h = "a" THEN "b" ELSE "a"

\* a chain reorganization at height h: the other branch's block becomes canonical at
\* h, the heights above h are no longer known, and the blocks that were canonical
\* from h on are either removed from storage or kept as Rejected
Reorg ==
    /\ mutations = 0
    /\ \E h \in Heights, fate \in {None, Some("Rejected")} :
         /\ storage.canonical[h] # None
         /\ storage' =
               [ status |->
                   [ id \in GlobalBlockId |->
                       IF id.number = h /\ Some(id.hash) # storage.canonical[h]
                       THEN Some("Pending")
                       ELSE IF id.number >= h /\ Some(id.hash) = storage.canonical[id.number]
                       THEN fate
                       ELSE storage.status[id] ],
                 canonical |->
                   [ g \in Heights |->
                       IF g < h THEN storage.canonical[g]
                       ELSE IF g = h THEN Some(OtherHash(unwrap(storage.canonical[h])))
                       ELSE None ] ]
    /\ mutations' = mutations + 1
    /\ UNCHANGED << faults, filter, starting_block, size, required_status, blocks,
                    current_block, iter, pc, blk, result, log, pred_calls, batch_ids,
                    stop, delivered, calls, origin >>

\* a stored Pending block is accepted on L2
Accept ==
    /\ mutations = 0
    /\ \E id \in GlobalBlockId :
         /\ storage.status[id] = Some("Pending")
         /\ storage' = [storage EXCEPT !.status[id] = Some("AcceptedOnL2")]
    /\ mutations' = mutations + 1
    /\ UNCHANGED << faults, filter, starting_block, size, required_status, blocks,
                    current_block, iter, pc, blk, result, log, pred_calls, batch_ids,
                    stop, delivered, calls, origin >>

NextIngesting ==
    \/ Next
    \/ Reorg
    \/ Accept

\* the aggregator over a storage layer that is being written, its calls succeeding
SpecIngesting == InitIngesting /\ [][NextIngesting]_vars

\* ---------------------------------------------------------------- properties
\* the call has returned a batch and a cursor
Returned == pc = "done" /\ result.kind = "ok"

Last(seq) == seq[Len(seq)]

\* the canonical id at height h, and its status in storage
CanonicalAt(h) == unwrap(canonical_block_id(h))
IsCanonical(id) == canonical_block_id(id.number) = Some(id)
StoredStatus(id) == IF storage.status[id] = None THEN "Unspecified" ELSE storage.status[id][1]

\* heights from..to all hold a canonical block whose status is the required one
RunOfRequired(from, to) ==
    \A h \in from .. to :
        /\ canonical_block_id(h) # None
        /\ storage.status[CanonicalAt(h)] = Some(required_status)

\* the chain has more than `size` consecutive canonical blocks from starting_block,
\* all with the required status
MoreThanSize ==
    /\ size >= 1
    /\ IsCanonical(starting_block)
    /\ RunOfRequired(starting_block.number, starting_block.number + size)

\* C1 as stated: size boundary. With more than max_size consecutive canonical blocks
\* of the required status from starting_block, the call returns exactly max_size
\* blocks and the cursor is the id of the last block of the returned batch.
C1_CursorIsLastOfBatch ==
    (Returned /\ MoreThanSize) =>
        /\ Len(result.blocks) = size
        /\ result.cursor = Last(batch_ids)

\* C1 amended: with more than max_size consecutive canonical blocks of the required
\* status from starting_block, the call returns exactly the max_size blocks at
\* heights starting_block.number .. starting_block.number + max_size - 1 and the
\* cursor is the canonical id one height after the last block of the batch.
C1_CursorIsSuccessorOfBatch ==
    (Returned /\ MoreThanSize) =>
        /\ Len(result.blocks) = size
        /\ Len(batch_ids) = size
        /\ \A k \in 1 .. size : batch_ids[k] = CanonicalAt(starting_block.number + k - 1)
        /\ result.cursor = CanonicalAt(starting_block.number + size)
        /\ stop = "size"

C1_Witness ==
    /\ Returned /\ MoreThanSize
    /\ size = 2
    /\ starting_block = Id(0, "a")
    /\ Len(result.blocks) = 2
    /\ result.cursor = Id(2, "a")

\* C2: aggregate_for_block returns None exactly when storage has no record for the
\* id, and Some(record) whenever storage has one.
C2_NoneIffNoRecord ==
    pc = "match" =>
        ((aggregate_for_block_result(blk) = None) <=> (storage.status[current_block] = None))

\* C3: absence. If starting_block is absent from storage then for every max_size >= 1
\* and every required status the call returns an empty batch and cursor = starting_block.
C3_AbsentStartEmptyBatch ==
    (Returned /\ size >= 1 /\ storage.status[starting_block] = None) =>
        /\ result.blocks = <<>>
        /\ result.cursor = starting_block

\* C4: status boundary. Every block of the batch has the required status; when the
\* traversal reaches a block whose status differs it stops there: that block is not
\* in the batch, no next_block call is made for it, and the cursor is its id.
C4_StatusBoundary ==
    /\ \A k \in 1 .. Len(blocks) :
          /\ blocks[k].status = as_i32(required_status)
          /\ StoredStatus(batch_ids[k]) = required_status
    /\ Returned => result.blocks = blocks
    /\ (pc = "next_block") => StoredStatus(current_block) = required_status
    /\ (pc = "done" /\ stop = "status") =>
          /\ result.kind = "ok"
          /\ result.cursor = current_block
          /\ StoredStatus(current_block) # required_status
          /\ \A k \in 1 .. Len(batch_ids) : batch_ids[k] # current_block
          /\ \A k \in 1 .. Len(log) :
                log[k].op = "canonical_block_id" => log[k].id # current_block
    /\ (Returned /\ size >= 1 /\ StoredStatus(starting_block) # required_status) =>
          stop = "status" /\ result.blocks = <<>>
    /\ \A j \in 1 .. MaxHeight :
          ( /\ Returned /\ size > j
            /\ starting_block = Id(0, "a")
            /\ RunOfRequired(0, j - 1)
            /\ canonical_block_id(j) # None
            /\ StoredStatus(CanonicalAt(j)) # required_status )
          => /\ batch_ids = [k \in 1 .. j |-> CanonicalAt(k - 1)]
             /\ result.cursor = CanonicalAt(j)

\* statuses [Pending, Pending, AcceptedOnL2], Pending required, from block 0
C4_Witness ==
    /\ Returned /\ stop = "status"
    /\ starting_block = Id(0, "a") /\ required_status = "Pending" /\ size = MaxSize
    /\ StoredStatus(Id(0, "a")) = "Pending"
    /\ StoredStatus(Id(1, "a")) = "Pending"
    /\ StoredStatus(Id(2, "a")) = "AcceptedOnL2"
    /\ Len(result.blocks) = 2
    /\ result.cursor = Id(2, "a")

\* the canonical chain's tip height, -1 for an empty chain
TipHeight ==
    IF \E h \in Heights : canonical_block_id(h) # None
    THEN CHOOSE h \in Heights :
            canonical_block_id(h) # None /\ \A g \in Heights : canonical_block_id(g) # None => g <= h
    ELSE 0 - 1

\* C5: tip boundary. When a block with the required status has been aggregated and
\* next_block returns None for it, the call stops, that block is the last element of
\* the batch and the cursor is its id; the cursor never names a height for which
\* canonical_block_id returned None.
C5_TipBoundary ==
    /\ (pc = "done" /\ stop = "tip") =>
          /\ result.kind = "ok"
          /\ result.blocks = blocks /\ Len(blocks) = Len(batch_ids)
          /\ Len(batch_ids) >= 1
          /\ result.cursor = Last(batch_ids)
          /\ Last(blocks).status = as_i32(required_status)
          /\ canonical_block_id(result.cursor.number + 1) = None
    /\ Returned =>
          \A k \in 1 .. Len(log) :
             (log[k].op = "canonical_block_id" /\ canonical_block_id(log[k].id.number + 1) = None)
                => result.cursor.number # log[k].id.number + 1
    /\ ( /\ Returned /\ IsCanonical(starting_block)
         /\ RunOfRequired(starting_block.number, TipHeight)
         /\ size > TipHeight - starting_block.number )
       => /\ stop = "tip"
          /\ batch_ids = [k \in 1 .. TipHeight - starting_block.number + 1 |->
                             CanonicalAt(starting_block.number + k - 1)]
          /\ result.cursor = CanonicalAt(TipHeight)

\* a 3-block chain, max_size larger than the chain, from block 0
C5_Witness ==
    /\ Returned /\ stop = "tip"
    /\ starting_block = Id(0, "a") /\ size = 4 /\ TipHeight = 2
    /\ Len(result.blocks) = 3
    /\ result.cursor = Id(2, "a")

\* C6 as stated: resumption invariant. In chained calls, each from the cursor of the
\* previous one, the cursor a call returns never identifies a block the caller has
\* already received in two of the batches returned so far.  Stated for cursors that
\* are canonical blocks storage holds a record of, all calls having max_size >= 1.
C6_CursorNotReceivedTwice ==
    (Returned /\ size >= 1 /\ IsCanonical(result.cursor) /\ storage.status[result.cursor] # None) =>
        delivered[result.cursor] < 2

\* C6 amended: over unchanging storage, the cursor a call returns never identifies a
\* block received in two batches, unless the call stopped because next_block returned
\* None; then the cursor is the last block of the batch just returned.
C6_CursorNotReceivedTwiceUnlessTip ==
    /\ (Returned /\ stop # "tip") => delivered[result.cursor] < 2
    /\ (Returned /\ stop = "tip") =>
          result.cursor = Last(batch_ids) /\ delivered[result.cursor] >= 1

\* the third chained call, which received its starting block and stopped on the size
C6_Witness ==
    /\ Returned /\ calls = 3 /\ stop = "size"
    /\ size >= 1
    /\ delivered[starting_block] = 1
    /\ delivered[result.cursor] = 0

\* C7: error propagation. A storage call that fails, at any iteration, is the last
\* storage call of aggregate_batch, and the call returns that error and no batch.
C7_ErrorPropagation ==
    /\ \A k \in 1 .. Len(log) :
          ~log[k].ok =>
             /\ k = Len(log)
             /\ pc = "done"
             /\ result.kind = "err"
             /\ result.error = log[k].op
    /\ (pc = "done" /\ result.kind = "err") =>
          /\ DOMAIN result = {"kind", "error"}
          /\ Len(log) >= 1
          /\ ~Last(log).ok
    /\ Returned => \A k \in 1 .. Len(log) : log[k].ok

\* read_receipts fails for the 2nd block of a batch, one block being accumulated
C7_Witness ==
    /\ pc = "done" /\ result.kind = "err" /\ result.error = "read_receipts"
    /\ size = MaxSize
    /\ Len(blocks) = 1
    /\ current_block = Id(1, "a")

\* C8: filter exclusivity. With an empty filter sequence for a category,
\* aggregate_for_block makes no storage read for it, invokes no predicate of it and
\* returns an empty collection for it.
C8_FilterExclusivity ==
    /\ Len(filter.transactions) = 0 =>
          /\ \A k \in 1 .. Len(log) : log[k].op # "read_body"
          /\ pred_calls.transactions = 0
          /\ pc = "match" => unwrap(aggregate_for_block_result(blk)).transactions = <<>>
          /\ \A k \in 1 .. Len(blocks) : blocks[k].transactions = <<>>
    /\ Len(filter.events) = 0 =>
          /\ \A k \in 1 .. Len(log) : log[k].op # "read_receipts"
          /\ pred_calls.events = 0
          /\ pc = "match" => unwrap(aggregate_for_block_result(blk)).events = <<>>
          /\ \A k \in 1 .. Len(blocks) : blocks[k].events = <<>>

\* a stored block with transactions and events, aggregated under the empty filter
C8_Witness ==
    /\ pc = "match"
    /\ Len(filter.transactions) = 0 /\ Len(filter.events) = 0
    /\ storage.status[current_block] # None
    /\ BodyOf(current_block) # <<>>
    /\ ReceiptsOf(current_block) # <<>>
    /\ unwrap(aggregate_for_block_result(blk)).transactions = <<>>

\* x is matched by at least one filter of the sequence fs
MatchedByAny(fs, x) == \E i \in 1 .. Len(fs) : x \in fs[i].matches

\* the positions of xs whose element is matched by at least one filter
Kept(fs, xs) == { i \in 1 .. Len(xs) : MatchedByAny(fs, xs[i]) }

\* the k-th smallest element of the set of positions I
KthOf(I, k) == CHOOSE i \in I : Cardinality({ j \in I : j <= i }) = k

\* out is exactly the subsequence of xs, in order, of the elements matched by some filter
IsRetention(out, fs, xs) ==
    /\ Len(out) = Cardinality(Kept(fs, xs))
    /\ \A k \in 1 .. Len(out) : out[k] = xs[KthOf(Kept(fs, xs), k)]

\* C9: transaction OR semantics and order. With a non-empty transaction filter
\* sequence, the record's transactions are exactly the subsequence of read_body's
\* result, in storage order, of those matched by at least one filter.
C9_TransactionsRetained ==
    Len(filter.transactions) > 0 =>
        /\ pc = "match" =>
              IsRetention(unwrap(aggregate_for_block_result(blk)).transactions,
                          filter.transactions, read_body(current_block))
        /\ \A k \in 1 .. Len(blocks) :
              IsRetention(blocks[k].transactions, filter.transactions, read_body(batch_ids[k]))

\* body [t1, t2, t3] under filters [{t2}, {t1}]: t1 is kept by the second filter only
C9_Witness ==
    /\ pc = "match"
    /\ current_block = Id(0, "a") /\ storage.status[current_block] # None
    /\ filter.transactions = << txf({"t2"}), txf({"t1"}) >>
    /\ unwrap(aggregate_for_block_result(blk)).transactions = <<"t1", "t2">>

\* C10: event ordering. With a non-empty event filter sequence, the record's events
\* are the events of all receipts, flattened in receipt order then within-receipt
\* order, restricted to those matched by at least one filter, each exactly once.
C10_EventsRetained ==
    Len(filter.events) > 0 =>
        /\ pc = "match" =>
              IsRetention(unwrap(aggregate_for_block_result(blk)).events,
                          filter.events, flatten(read_receipts(current_block)))
        /\ \A k \in 1 .. Len(blocks) :
              IsRetention(blocks[k].events, filter.events, flatten(read_receipts(batch_ids[k])))

\* receipts [r0{e0,e1}, r1{e2}], e1 and e2 matched by both filters
C10_Witness ==
    /\ pc = "match"
    /\ current_block = Id(0, "a") /\ storage.status[current_block] # None
    /\ filter.events = << txf({"e0", "e1", "e2"}), txf({"e1", "e2"}) >>
    /\ unwrap(aggregate_for_block_result(blk)).events = <<"e0", "e1", "e2">>

\* C11: within one aggregate_for_block call each storage operation is called at most
\* once for the block, and within one aggregate_batch call over unchanging storage no
\* (block, artifact-kind) pair is read more than once.
C11_NoRepeatedRead ==
    \A j, k \in 1 .. Len(log) :
        (j < k) => ~(log[j].op = log[k].op /\ log[j].id = log[k].id)

\* two blocks aggregated under a filter that reads all four artifacts of each
C11_Witness ==
    /\ Returned /\ Len(result.blocks) = 2
    /\ filter.header /\ Len(filter.transactions) > 0 /\ Len(filter.events) > 0
    /\ Len(log) = 10

\* C13: next_block(id) is what canonical_block_id(id.number + 1) returns: it depends
\* on id.number only, not on id.hash, and is None when that height is not known
\* (for every id, in the storage state of every next_block call).
C13_NextBlockByHeight ==
    /\ pc = "next_block" =>
          \A id \in GlobalBlockId :
             /\ next_block(id) =
                  IF id.number + 1 \in Heights /\ storage.canonical[id.number + 1] # None
                  THEN << [number |-> id.number + 1,
                           hash |-> storage.canonical[id.number + 1][1]] >>
                  ELSE << >>
             /\ \A h \in Hashes : next_block(id) = next_block(Id(id.number, h))
    /\ (pc = "status" /\ iter >= 1) =>
          Some(current_block) = canonical_block_id(Last(batch_ids).number + 1)
    /\ (pc = "done" /\ stop = "tip") =>
          canonical_block_id(Last(batch_ids).number + 1) = None

\* a starting block whose hash is not the canonical one at its height gets the
\* canonical successor
C13_Witness ==
    /\ pc = "status" /\ iter = 1
    /\ batch_ids = << Id(0, "b") >>
    /\ IsCanonical(Id(0, "a"))
    /\ current_block = Id(1, "a")

\* C14: header inclusion. read_header is called only if filter.header is set, and
\* then the record's header is what it returned; otherwise no read_header call is
\* made and the record's header is absent.
C14_HeaderInclusion ==
    /\ ~filter.header =>
          /\ \A k \in 1 .. Len(log) : log[k].op # "read_header"
          /\ \A k \in 1 .. Len(blocks) : blocks[k].header = None
          /\ pc = "match" => unwrap(aggregate_for_block_result(blk)).header = None
    /\ filter.header =>
          /\ \A k \in 1 .. Len(blocks) :
                /\ blocks[k].header = read_header(batch_ids[k])
                /\ \E j \in 1 .. Len(log) :
                      log[j].op = "read_header" /\ log[j].id = batch_ids[k] /\ log[j].ok
          /\ pc = "match" =>
                /\ unwrap(aggregate_for_block_result(blk)).header = read_header(current_block)
                /\ \E j \in 1 .. Len(log) :
                      log[j].op = "read_header" /\ log[j].id = current_block /\ log[j].ok

\* a stored block aggregated with filter.header unset
C14_Witness ==
    /\ pc = "next_block"
    /\ ~filter.header
    /\ storage.status[current_block] # None
    /\ Last(blocks).header = None

\* C15: in every record, and so in every block of every batch, receipts is empty and
\* state_update is absent, and no storage read is made for state updates.
C15_ReceiptsAndStateUpdateEmpty ==
    /\ \A k \in 1 .. Len(blocks) :
          blocks[k].receipts = <<>> /\ blocks[k].state_update = None
    /\ pc = "match" =>
          /\ unwrap(aggregate_for_block_result(blk)).receipts = <<>>
          /\ unwrap(aggregate_for_block_result(blk)).state_update = None
    /\ Returned => result.blocks = blocks
    /\ \A k \in 1 .. Len(log) :
          log[k].op \in {"read_status", "read_header", "read_body", "read_receipts",
                         "canonical_block_id"}

\* a stored block with receipts, which were read for its events
C15_Witness ==
    /\ pc = "next_block"
    /\ Len(filter.events) > 0
    /\ storage.status[current_block] # None
    /\ ReceiptsOf(current_block) # <<>>
    /\ Last(blocks).events # <<>>
    /\ Last(blocks).receipts = <<>>
    /\ Last(blocks).state_update = None

\* number of calls of a storage operation in the log
Count(op) == Cardinality({ k \in 1 .. Len(log) : log[k].op = op })

\* C16: bounded batch. aggregate_batch returns at most max_size blocks and calls
\* aggregate_for_block and next_block at most max_size times each; with max_size = 0
\* it makes no storage call and returns the empty batch and starting_block.
C16_BoundedBatch ==
    /\ Len(blocks) <= size
    /\ Count("read_status") <= size
    /\ Count("canonical_block_id") <= size
    /\ Returned => Len(result.blocks) <= size
    /\ (pc # "idle" /\ size = 0) =>
          /\ log = <<>>
          /\ pc = "done"
          /\ result = [kind |-> "ok", blocks |-> <<>>, cursor |-> starting_block]

\* max_size = 0 on a stored canonical block of the required status
C16_Witness ==
    /\ Returned /\ size = 0 /\ calls = 1
    /\ IsCanonical(starting_block)
    /\ storage.status[starting_block] = Some(required_status)
    /\ result.cursor = starting_block

\* C17: cursor offset. The i-th block of the batch (from 0) was aggregated at height
\* starting_block.number + i; the cursor's number is starting_block.number +
\* len(batch), or one less when the call stopped because next_block returned None;
\* it is never below starting_block.number.
C17_CursorOffset ==
    /\ \A k \in 1 .. Len(batch_ids) : batch_ids[k].number = starting_block.number + k - 1
    /\ Len(batch_ids) = Len(blocks)
    /\ (Returned /\ stop # "tip") =>
          result.cursor.number = starting_block.number + Len(result.blocks)
    /\ (Returned /\ stop = "tip") =>
          result.cursor.number = starting_block.number + Len(result.blocks) - 1
    /\ Returned => result.cursor.number >= starting_block.number

\* one block from height 1, stopped on the size
C17_Witness ==
    /\ Returned /\ stop = "size"
    /\ starting_block.number = 1
    /\ Len(result.blocks) = 1
    /\ result.cursor.number = 2

\* position of a storage operation in aggregate_for_block, next_block's call last
Rank(op) ==
    CASE op = "read_status"   -> 1
      [] op = "read_header"   -> 2
      [] op = "read_body"     -> 3
      [] op = "read_receipts" -> 4
      [] OTHER                -> 5

\* every storage call made for the block read storage as it is now
ReadsAreCurrent(id) ==
    \A k \in 1 .. Len(log) : log[k].id = id => log[k].ver = mutations

\* the record is what one state of storage, the current one, gives for the block
FromOneSnapshot(rec, id) ==
    /\ rec.status = as_i32(StoredStatus(id))
    /\ rec.header = IF filter.header /\ storage.status[id] # None
                     THEN << HeaderOf(id) >> ELSE << >>
    /\ IF Len(filter.transactions) = 0 THEN rec.transactions = <<>>
       ELSE IsRetention(rec.transactions, filter.transactions,
                        IF storage.status[id] # None THEN BodyOf(id) ELSE <<>>)
    /\ IF Len(filter.events) = 0 THEN rec.events = <<>>
       ELSE IsRetention(rec.events, filter.events,
                        flatten(IF storage.status[id] # None THEN ReceiptsOf(id) ELSE <<>>))

\* C12: non-atomic snapshot. aggregate_for_block reads status, header, body and
\* receipts as separate storage calls, in that order; a record whose reads were not
\* interleaved with a change of storage is the record of one state of storage, and
\* one whose reads were can combine a status read before the change with
\* transactions or events read after it (the witness).
C12_RecordOfOneSnapshotUnlessInterleaved ==
    /\ \A j, k \in 1 .. Len(log) :
          (j < k /\ log[j].id = log[k].id) => Rank(log[j].op) < Rank(log[k].op)
    /\ (pc = "match" /\ ReadsAreCurrent(current_block)) =>
          FromOneSnapshot(unwrap(aggregate_for_block_result(blk)), current_block)

\* the block was stored when its status was read and removed by a reorg before its
\* body was read: the record has the old status and none of the block's transactions
C12_Witness ==
    /\ pc = "match"
    /\ \E j, k \in 1 .. Len(log) :
          /\ log[j].id = current_block /\ log[j].op = "read_status" /\ log[j].ver = 0
          /\ log[k].id = current_block /\ log[k].op = "read_body" /\ log[k].ver = 1
    /\ storage.status[current_block] = None
    /\ unwrap(aggregate_for_block_result(blk)).status = as_i32("Pending")
    /\ Kept(filter.transactions, BodyOf(current_block)) # {}
    /\ unwrap(aggregate_for_block_result(blk)).transactions = <<>>
    /\ ~FromOneSnapshot(unwrap(aggregate_for_block_result(blk)), current_block)

\* C19: blocked cursor is a fixed point. If starting_block's status is not the
\* required one (a block reorged out of the canonical chain or an unknown block read
\* as Unspecified included), aggregate_batch returns (empty batch, starting_block)
\* without calling canonical_block_id, so a chained call starts from the same block,
\* and does so as long as storage holds that status; no call looks up the canonical
\* id at starting_block's height.
C19_BlockedCursorFixedPoint ==
    /\ ( /\ pc # "idle" /\ size >= 1 /\ iter = 0
         /\ Len(log) >= 1 /\ log[1].ver = mutations
         /\ StoredStatus(starting_block) # required_status )
       => /\ pc \in {"header", "transactions", "events", "match", "done"}
          /\ blocks = <<>>
          /\ \A k \in 1 .. Len(log) : log[k].op # "canonical_block_id"
          /\ pc = "done" =>
                /\ stop = "status"
                /\ result = [kind |-> "ok", blocks |-> <<>>, cursor |-> starting_block]
    /\ (Returned /\ stop = "status" /\ result.blocks = <<>>) =>
          result.cursor = starting_block
    /\ \A k \in 1 .. Len(log) :
          log[k].op = "canonical_block_id" => log[k].id.number >= starting_block.number

\* the third chained call blocked on a block that a reorg took out of the canonical
\* chain, nothing having been delivered
C19_Witness ==
    /\ Returned /\ calls = 3 /\ size >= 1
    /\ mutations = 1
    /\ ~IsCanonical(starting_block)
    /\ storage.status[starting_block] = Some("Rejected")
    /\ stop = "status"
    /\ result = [kind |-> "ok", blocks |-> <<>>, cursor |-> starting_block]
    /\ \A id \in GlobalBlockId : delivered[id] = 0

\* the first call started on the canonical chain, whose blocks from there to the tip
\* all have the required status
ChainOfRequired ==
    /\ calls >= 1
    /\ IsCanonical(origin)
    /\ RunOfRequired(origin.number, TipHeight)

\* the canonical blocks from the first starting block up to height h were delivered
DeliveredUpTo(h) ==
    \A g \in origin.number .. h : delivered[CanonicalAt(g)] >= 1

\* a call from a block that has a canonical successor returns a higher cursor
CursorAdvances ==
    ( /\ Returned /\ ChainOfRequired /\ size >= 1
      /\ canonical_block_id(starting_block.number + 1) # None )
    => result.cursor.number > starting_block.number

\* what the calls have returned so far covers the chain up to the cursor
DeliveredBelowCursor ==
    (Returned /\ ChainOfRequired) =>
        DeliveredUpTo(IF stop = "tip" THEN result.cursor.number ELSE result.cursor.number - 1)

\* a call has returned the tip's id as cursor, the chain being delivered
CaughtUp ==
    /\ Returned
    /\ ChainOfRequired
    /\ result.cursor = CanonicalAt(TipHeight)
    /\ DeliveredUpTo(TipHeight)

\* C18: progress of chained calls. Over unchanging storage holding a canonical chain
\* whose blocks all have the required status, chained calls with max_size >= 1
\* strictly increase the cursor height while the cursor block has a canonical
\* successor; the cursor eventually equals the tip's id, every canonical block from
\* the start to the tip having been delivered, and from then on every call returns
\* the tip's id again.
C18_ChainedCallsReachTip ==
    /\ [](CursorAdvances /\ DeliveredBelowCursor)
    /\ (ChainOfRequired ~> CaughtUp)
    /\ (ChainOfRequired ~> [](pc = "done" => CaughtUp))

\* the whole 3-block chain delivered, and its tip delivered by three calls
C18_Witness ==
    /\ CaughtUp
    /\ origin = Id(0, "a") /\ TipHeight = 2
    /\ starting_block = Id(2, "a")
    /\ calls = MaxCalls
    /\ delivered[Id(2, "a")] = MaxCalls

====
